---- MODULE Spec2Model ----
(***************************************************************************)
(* Model of src/main.py: get_config (command line merged with an optional  *)
(* JSON file, then validated) and main (training loop with early stopping, *)
(* best-checkpoint selection, save/restore and optional test evaluation).  *)
(*                                                                         *)
(* Floats are modelled by integers 0..MaxLoss together with the two        *)
(* non-finite values a loss can take, Inf (np.inf) and NaN.  A parameter   *)
(* state of the network is identified by the number of train_epoch calls   *)
(* that produced it.  Python's None is the empty tuple and a present value *)
(* x is <<x>>.                                                             *)
(***************************************************************************)
EXTENDS Integers, Sequences, FiniteSets, TLC

VARIABLES
    argv,               \* vars(parser.parse_args()): option name -> value
    files,              \* the file system: path -> parsed JSON object
    pc,                 \* position of main, or the exception that ended it
    config,             \* main's config dict (empty until get_config returns)
    model_params,       \* the live parameters of the model
    epoch_i,            \* loop variable of the training loop
    epoch_train_loss,   \* result of the last train_epoch
    best_val_loss,
    best_val_metrics,
    best_val_epoch,
    best_params,
    wandb_log,          \* the wandb.log calls of the loop: <<[step, val_mse]>>
    param_file,         \* content of the checkpoint file (None until written)
    summary,            \* wandb.run.summary validation entries (None until set)
    test_eval           \* parameters the test evaluation ran with (None if not run)

vars == <<argv, files, pc, config, model_params, epoch_i, epoch_train_loss,
          best_val_loss, best_val_metrics, best_val_epoch, best_params,
          wandb_log, param_file, summary, test_eval>>

-----------------------------------------------------------------------------
(* Bounds of the model *)

MaxEpochs == 4

MaxValInterval == 2

MaxPatience == 2

MaxLoss == 1

MaxBatch == 2

MaxFileKeys == 2

-----------------------------------------------------------------------------
(* Values *)

None == <<>>

Some(x) == <<x>>

EmptyDict == [k \in {} |-> 0]

\* np.inf: larger than every finite loss
Inf == MaxLoss + 1

\* float nan: every ordered comparison with it is False
NaN == 0 - 1

FloatLess(a, b) == a # NaN /\ b # NaN /\ a < b

\* Python's a % b (the result takes the sign of b); b # 0
PyMod(a, b) == IF b > 0 THEN a % b ELSE 0 - ((0 - a) % (0 - b))

\* Python's  num / den >= rhs  on integers (true division, exact); den # 0
TrueDivGeq(num, den, rhs) == IF den > 0 THEN num >= rhs * den ELSE num <= rhs * den

\* variant of update: a key already in d keeps its value
update_keep(d, u) == [k \in (DOMAIN d) \cup (DOMAIN u) |-> IF k \in DOMAIN d THEN d[k] ELSE u[k]]

\* dict.update: the keys of u are written over d, new keys are added
update(d, u) == [k \in (DOMAIN d) \cup (DOMAIN u) |-> IF k \in DOMAIN u THEN u[k] ELSE d[k]]

-----------------------------------------------------------------------------
(* Registries *)

MODELS == {"gru", "gru_node", "gru_graph"}

OPTIMIZERS == {"adam"}

LOSSES == {"mse"}

GNN_LAYERS == {"graphconv"}

\* argparse defaults of the options the model keeps
Defaults ==
    [config |-> "", model |-> "gru_graph", optimizer |-> "adam", init_points |-> 5,
     test |-> 0, gnn_type |-> "graphconv", epochs |-> 10, val_interval |-> 1,
     patience |-> 10, loss |-> "mse", batch_size |-> 32, plot_pred |-> 3]

-----------------------------------------------------------------------------
(* get_config *)

exists(fs, path) == path \in DOMAIN fs

\* variant of unknown_options: the file's keys are not compared with the options
unknown_options_unchecked(config_from_file, cfg) == {}

\* line 105
unknown_options(config_from_file, cfg) == (DOMAIN config_from_file) \ (DOMAIN cfg)

\* lines 98-110: config after the optional merge of the file, None when an
\* assertion of that block fails
merge_file(args, fs) ==
    IF args.config # ""
    THEN IF ~exists(fs, args.config)
         THEN None
         ELSE IF unknown_options(fs[args.config], args) # {}
              THEN None
              ELSE Some(update(args, fs[args.config]))
    ELSE Some(args)

\* variant of asserts_hold: the optimizer assert is missing
asserts_hold_no_optimizer(cfg) ==
    /\ cfg.model \in MODELS
    /\ cfg.loss \in LOSSES
    /\ cfg.gnn_type \in GNN_LAYERS
    /\ cfg.init_points > 0
    /\ cfg.plot_pred <= cfg.batch_size

\* variant of asserts_hold: init_points may be zero
asserts_hold_nonnegative(cfg) ==
    /\ cfg.model \in MODELS
    /\ cfg.optimizer \in OPTIMIZERS
    /\ cfg.loss \in LOSSES
    /\ cfg.gnn_type \in GNN_LAYERS
    /\ cfg.init_points >= 0
    /\ cfg.plot_pred <= cfg.batch_size

\* lines 112-121: the asserts on the merged config
asserts_hold(cfg) ==
    /\ cfg.model \in MODELS
    /\ cfg.optimizer \in OPTIMIZERS
    /\ cfg.loss \in LOSSES
    /\ cfg.gnn_type \in GNN_LAYERS
    /\ cfg.init_points > 0
    /\ cfg.plot_pred <= cfg.batch_size

\* the returned config, None when an AssertionError is raised
get_config(args, fs) ==
    LET merged == merge_file(args, fs)
    IN  IF merged = None THEN None
        ELSE IF asserts_hold(merged[1]) THEN merged ELSE None

-----------------------------------------------------------------------------
(* Inputs *)

Paths == {"", "run.json", "missing.json"}

\* values tried for the four registry-checked options; the second of each is
\* a name registered in another registry only
NameChoices ==
    [model |-> {"gru_graph", "adam"}, optimizer |-> {"adam", "mse"},
     loss |-> {"mse", "graphconv"}, gnn_type |-> {"graphconv", "gru"}]

NameKeys == DOMAIN NameChoices

NumKeys == {"init_points", "plot_pred", "batch_size"}

NumChoices == 0..MaxBatch

\* JSON objects over the registry-checked options
NameObjects ==
    UNION {{f \in [S -> UNION {NameChoices[k] : k \in NameKeys}] :
                \A k \in S : f[k] \in NameChoices[k]} : S \in SUBSET NameKeys}

\* JSON objects over the bound-checked options
NumObjects == UNION {[S -> NumChoices] : S \in SUBSET NumKeys}

\* JSON objects over keys that are no option ("learning_rate" for "lr")
TypoObjects == {EmptyDict, [learning_rate |-> 1]}

\* JSON objects over the training options
TrainObjects == {[patience |-> p] : p \in 0..MaxPatience}

ValIntervals == (0..MaxValInterval) \cup {0 - 1}

TrainLosses == 0..MaxLoss

\* val_mse: a finite loss, or the non-finite results of a diverged model
ValLosses == (0..MaxLoss) \cup {Inf, NaN}

\* what load_temporal_graph_data yields for the first training sample
Datasets ==
    {[num_nodes |-> 2, time_steps |-> 3, y_dim |-> 1, has_features |-> FALSE, feature_dim |-> 0],
     [num_nodes |-> 2, time_steps |-> 3, y_dim |-> 1, has_features |-> TRUE, feature_dim |-> 2]}

-----------------------------------------------------------------------------
(* Initial states: the command line and the file system main is started with *)

MainStart ==
    /\ pc = "get_config"
    /\ config = EmptyDict
    /\ model_params = 0
    /\ epoch_i = 0
    /\ epoch_train_loss = 0
    /\ best_val_loss = Inf
    /\ best_val_metrics = None
    /\ best_val_epoch = 0 - 1
    /\ best_params = None
    /\ wandb_log = <<>>
    /\ param_file = None
    /\ summary = None
    /\ test_eval = None

\* runs that vary the training options; patience is given by the config file
TrainInit ==
    /\ \E e \in 0..MaxEpochs, vi \in ValIntervals, t \in {0, 1} :
          argv = [Defaults EXCEPT !.config = "run.json", !.epochs = e,
                                  !.val_interval = vi, !.test = t]
    /\ \E obj \in TrainObjects : files = [p \in {"run.json"} |-> obj]
    /\ MainStart

\* runs that vary the validated options on the command line and in the file
ConfigInit ==
    /\ \E p \in Paths, m \in NameChoices.model, o \in NameChoices.optimizer,
          l \in NameChoices.loss, g \in NameChoices.gnn_type,
          ip \in {0, 1}, pp \in 1..MaxBatch, bs \in 1..MaxBatch :
          argv = [Defaults EXCEPT !.config = p, !.model = m, !.optimizer = o,
                                  !.loss = l, !.gnn_type = g, !.init_points = ip,
                                  !.plot_pred = pp, !.batch_size = bs,
                                  !.epochs = 1, !.patience = 1]
    /\ \E a \in NameObjects, b \in NumObjects, c \in TypoObjects :
          /\ Cardinality(DOMAIN a) + Cardinality(DOMAIN b) + Cardinality(DOMAIN c)
                <= MaxFileKeys
          /\ files = [p \in {"run.json"} |-> a @@ b @@ c]
    /\ MainStart

Init == TrainInit \/ ConfigInit

-----------------------------------------------------------------------------
(* main *)

\* line 126
GetConfig ==
    /\ pc = "get_config"
    /\ LET returned == get_config(argv, files)
       IN  IF returned = None
           THEN pc' = "AssertionError" /\ UNCHANGED config
           ELSE pc' = "load_data" /\ config' = returned[1]
    /\ UNCHANGED <<argv, files, model_params, epoch_i, epoch_train_loss, best_val_loss,
                   best_val_metrics, best_val_epoch, best_params, wandb_log,
                   param_file, summary, test_eval>>

\* lines 128-161: seeds, device, data loaders, wandb.init, dataset-derived config
LoadData ==
    /\ pc = "load_data"
    /\ \E ds \in Datasets : config' = update(config, ds)
    /\ pc' = "create_model"
    /\ UNCHANGED <<argv, files, model_params, epoch_i, epoch_train_loss, best_val_loss,
                   best_val_metrics, best_val_epoch, best_params, wandb_log,
                   param_file, summary, test_eval>>

\* the for statement of line 176 taking its next value after epoch e
NextEpoch(e) ==
    IF e < config.epochs
    THEN pc' = "train_epoch" /\ epoch_i' = e + 1
    ELSE pc' = "save" /\ UNCHANGED epoch_i

\* lines 163-176: registry lookups, initial best values, entry of the loop
CreateModel ==
    /\ pc = "create_model"
    /\ IF /\ config.model \in MODELS
          /\ config.optimizer \in OPTIMIZERS
          /\ config.loss \in LOSSES
       THEN /\ best_val_loss' = Inf
            /\ best_val_metrics' = None
            /\ best_val_epoch' = 0 - 1
            /\ best_params' = None
            /\ NextEpoch(0)
       ELSE /\ pc' = "KeyError"
            /\ UNCHANGED <<epoch_i, best_val_loss, best_val_metrics, best_val_epoch,
                           best_params>>
    /\ UNCHANGED <<argv, files, config, model_params, epoch_train_loss, wandb_log,
                   param_file, summary, test_eval>>

\* lines 177-179: one training epoch, then the test whether to validate
TrainEpoch ==
    /\ pc = "train_epoch"
    /\ model_params' = model_params + 1
    /\ \E loss \in TrainLosses : epoch_train_loss' = loss
    /\ IF config.val_interval = 0
       THEN pc' = "ZeroDivisionError" /\ UNCHANGED epoch_i
       ELSE IF PyMod(epoch_i, config.val_interval) = 0
            THEN pc' = "val_epoch" /\ UNCHANGED epoch_i
            ELSE NextEpoch(epoch_i)
    /\ UNCHANGED <<argv, files, config, best_val_loss, best_val_metrics, best_val_epoch,
                   best_params, wandb_log, param_file, summary, test_eval>>

\* line 195
Improves(epoch_val_loss, best) == FloatLess(epoch_val_loss, best)

\* line 199: a copy is independent of the live parameters
deepcopy(state_dict) == state_dict

\* variant of StopTraining: strict comparison with patience
StopTraining_strict(epoch, best_epoch, val_interval, patience) ==
    IF val_interval > 0
    THEN epoch - best_epoch > patience * val_interval
    ELSE epoch - best_epoch < patience * val_interval

\* line 201
StopTraining(epoch, best_epoch, val_interval, patience) ==
    TrueDivGeq(epoch - best_epoch, val_interval, patience)

\* lines 181-204: validation, logging, best-so-far update, early-stopping test
ValEpoch ==
    /\ pc = "val_epoch"
    /\ \E val_mse \in ValLosses :
          LET log_metrics == [train_loss |-> epoch_train_loss, val_mse |-> val_mse]
              improved == Improves(val_mse, best_val_loss)
              new_best_epoch == IF improved THEN epoch_i ELSE best_val_epoch
          IN  /\ wandb_log' = Append(wandb_log, [step |-> epoch_i, val_mse |-> val_mse])
              /\ best_val_loss' = IF improved THEN val_mse ELSE best_val_loss
              /\ best_val_metrics' = IF improved THEN Some(log_metrics) ELSE best_val_metrics
              /\ best_val_epoch' = new_best_epoch
              /\ best_params' = IF improved THEN Some(deepcopy(model_params)) ELSE best_params
              /\ IF StopTraining(epoch_i, new_best_epoch, config.val_interval, config.patience)
                 THEN pc' = "save" /\ UNCHANGED epoch_i
                 ELSE NextEpoch(epoch_i)
    /\ UNCHANGED <<argv, files, config, model_params, epoch_train_loss, param_file,
                   summary, test_eval>>

\* lines 207-208: torch.save pickles whatever best_params is, None included
SaveParams ==
    /\ pc = "save"
    /\ param_file' = Some(best_params)
    /\ pc' = "restore"
    /\ UNCHANGED <<argv, files, config, model_params, epoch_i, epoch_train_loss,
                   best_val_loss, best_val_metrics, best_val_epoch, best_params,
                   wandb_log, summary, test_eval>>

\* variant of load_state_dict: the live parameters stay
load_state_dict_skipped(current, state_dict) == current

\* line 211: the parameters of the model after loading state_dict
load_state_dict(current, state_dict) == state_dict

\* lines 211-218: load_state_dict rejects None; then the validation plots
RestoreParams ==
    /\ pc = "restore"
    /\ IF best_params = None
       THEN pc' = "TypeError" /\ UNCHANGED model_params
       ELSE /\ model_params' = load_state_dict(model_params, best_params[1])
            /\ pc' = "summary"
    /\ UNCHANGED <<argv, files, config, epoch_i, epoch_train_loss, best_val_loss,
                   best_val_metrics, best_val_epoch, best_params, wandb_log,
                   param_file, summary, test_eval>>

\* del d[key]
del(d, key) == [k \in (DOMAIN d) \ {key} |-> d[k]]

\* lines 221-223: train_loss is removed, the rest goes to the run summary
Summary ==
    /\ pc = "summary"
    /\ IF best_val_metrics = None
       THEN pc' = "TypeError" /\ UNCHANGED <<best_val_metrics, summary>>
       ELSE /\ best_val_metrics' = Some(del(best_val_metrics[1], "train_loss"))
            /\ summary' = Some(del(best_val_metrics[1], "train_loss"))
            /\ pc' = "test"
    /\ UNCHANGED <<argv, files, config, model_params, epoch_i, epoch_train_loss,
                   best_val_loss, best_val_epoch, best_params, wandb_log, param_file,
                   test_eval>>

\* lines 232-239
TestEval ==
    /\ pc = "test"
    /\ test_eval' = IF config.test # 0 THEN Some(model_params) ELSE test_eval
    /\ pc' = "done"
    /\ UNCHANGED <<argv, files, config, model_params, epoch_i, epoch_train_loss,
                   best_val_loss, best_val_metrics, best_val_epoch, best_params,
                   wandb_log, param_file, summary>>

Next ==
    \/ GetConfig
    \/ LoadData
    \/ CreateModel
    \/ TrainEpoch
    \/ ValEpoch
    \/ SaveParams
    \/ RestoreParams
    \/ Summary
    \/ TestEval

Spec == Init /\ [][Next]_vars

-----------------------------------------------------------------------------
(* Notions the properties are stated in *)

InLoop == pc \in {"train_epoch", "val_epoch"}

AfterLoop == pc \in {"save", "restore", "summary", "test", "done", "TypeError"}

Returned == pc \notin {"get_config", "AssertionError"}

\* the JSON object get_config reads, when it reads one
FileUsed == argv.config # "" /\ exists(files, argv.config)

\* the value option k has once the file has been merged over the command line
Final(k) ==
    IF FileUsed /\ k \in DOMAIN files[argv.config] THEN files[argv.config][k] ELSE argv[k]

FileHasUnknownKey == FileUsed /\ ~((DOMAIN files[argv.config]) \subseteq (DOMAIN argv))

NamesRegistered ==
    /\ Final("model") \in MODELS
    /\ Final("optimizer") \in OPTIMIZERS
    /\ Final("loss") \in LOSSES
    /\ Final("gnn_type") \in GNN_LAYERS

BoundsValid == Final("init_points") > 0 /\ Final("plot_pred") <= Final("batch_size")

\* best val_mse among the first n evaluations (inf before the first)
RECURSIVE BestAfter(_, _)
BestAfter(log, n) ==
    IF n = 0 THEN Inf
    ELSE LET b == BestAfter(log, n - 1)
         IN  IF FloatLess(log[n].val_mse, b) THEN log[n].val_mse ELSE b

\* evaluation n did not produce a val_mse strictly lower than the best before it
Failed(log, n) == ~FloatLess(log[n].val_mse, BestAfter(log, n - 1))

\* number of evaluations since the last one that improved (all of them if none did)
RECURSIVE TrailingFails(_, _)
TrailingFails(log, n) ==
    IF n = 0 THEN 0
    ELSE IF Failed(log, n) THEN 1 + TrailingFails(log, n - 1) ELSE 0

NoNaN(log) == \A i \in 1..Len(log) : log[i].val_mse # NaN

\* evaluation i has the lowest val_mse of the log, and no earlier one has it
FirstLowest(log, i) ==
    /\ \A j \in 1..Len(log) : log[i].val_mse <= log[j].val_mse
    /\ \A j \in 1..(i - 1) : log[j].val_mse # log[i].val_mse

-----------------------------------------------------------------------------
(* Properties *)

\* C1: with patience >= 1 and val_interval >= 1, once the last `patience`
\* evaluations have each failed to beat the best val_mse so far, the loop has
\* been left at the latest of them: no train_epoch or val_epoch follows it.
C1_StopsAfterPatienceFails ==
    (/\ Returned
     /\ config.patience >= 1
     /\ config.val_interval >= 1
     /\ TrailingFails(wandb_log, Len(wandb_log)) >= config.patience)
    => /\ AfterLoop
       /\ epoch_i = wandb_log[Len(wandb_log)].step
       /\ model_params \in {epoch_i} \cup {e[1] : e \in {best_params} \ {None}}

C1_Witness ==
    /\ pc = "save"
    /\ config.patience >= 1
    /\ config.val_interval >= 1
    /\ best_val_epoch >= 1
    /\ epoch_i < config.epochs
    /\ TrailingFails(wandb_log, Len(wandb_log)) = config.patience

\* C2: once training has ended after at least one evaluation, the checkpoint
\* file holds, and the model has loaded, the snapshot taken at the first
\* evaluated epoch with the lowest val_mse.
C2_SavesLowestValSnapshot ==
    (AfterLoop /\ pc # "save" /\ Len(wandb_log) >= 1 /\ NoNaN(wandb_log))
    => \A i \in 1..Len(wandb_log) :
          FirstLowest(wandb_log, i)
          => /\ param_file = Some(Some(wandb_log[i].step))
             /\ pc # "TypeError"
             /\ pc \in {"summary", "test", "done"} => model_params = wandb_log[i].step

\* C3: a config returned by get_config with a config file holds the file's
\* value for every option in the file and the command-line value for the rest.
C3_FileOverridesCommandLine ==
    (Returned /\ argv.config # "")
    => /\ \A k \in DOMAIN files[argv.config] : config[k] = files[argv.config][k]
       /\ \A k \in (DOMAIN argv) \ (DOMAIN files[argv.config]) : config[k] = argv[k]
       /\ pc = "load_data" => DOMAIN config = DOMAIN argv

C3_Witness ==
    /\ pc = "load_data"
    /\ argv.config # ""
    /\ \E k \in DOMAIN files[argv.config] : files[argv.config][k] # argv[k]
    /\ \E k \in (DOMAIN argv) \ (DOMAIN files[argv.config]) : argv[k] # Defaults[k]

\* C4: when the config file has a key that is no command-line option,
\* get_config raises AssertionError, main gets no config and goes no further.
C4_UnknownKeyRejected ==
    (pc # "get_config" /\ FileHasUnknownKey)
    => /\ pc = "AssertionError"
       /\ config = EmptyDict
       /\ model_params = 0 /\ wandb_log = <<>> /\ param_file = None

C4_Witness ==
    /\ pc = "AssertionError"
    /\ FileHasUnknownKey
    /\ NamesRegistered
    /\ BoundsValid
    /\ \E k \in (DOMAIN files[argv.config]) \cap (DOMAIN argv) :
          files[argv.config][k] # argv[k]

\* C5: a returned config has a registered model, optimizer, loss and gnn_type;
\* a merged config with an unregistered name is rejected, whichever of the
\* command line and the file the name came from, and no registry lookup of
\* main fails.
C5_NamesRegistered ==
    /\ pc # "KeyError"
    /\ Returned => /\ config.model \in MODELS
                   /\ config.optimizer \in OPTIMIZERS
                   /\ config.loss \in LOSSES
                   /\ config.gnn_type \in GNN_LAYERS
    /\ (pc # "get_config" /\ ~NamesRegistered) => pc = "AssertionError"

C5_Witness ==
    /\ pc = "AssertionError"
    /\ FileUsed
    /\ ~FileHasUnknownKey
    /\ BoundsValid
    /\ argv.optimizer \in OPTIMIZERS
    /\ Final("optimizer") \notin OPTIMIZERS
    /\ Final("model") \in MODELS /\ Final("loss") \in LOSSES
    /\ Final("gnn_type") \in GNN_LAYERS

\* C6: a returned config has init_points > 0 and plot_pred <= batch_size; a
\* merged config violating either is rejected with an AssertionError,
\* whichever of the command line and the file the values came from.
C6_BoundsChecked ==
    /\ Returned => config.init_points > 0 /\ config.plot_pred <= config.batch_size
    /\ (pc # "get_config" /\ ~BoundsValid) => pc = "AssertionError" /\ config = EmptyDict

C6_Witness ==
    /\ pc = "AssertionError"
    /\ FileUsed
    /\ ~FileHasUnknownKey
    /\ NamesRegistered
    /\ argv.init_points > 0 /\ argv.plot_pred <= argv.batch_size
    /\ Final("init_points") = 0
    /\ Final("plot_pred") <= Final("batch_size")

\* C7: with val_interval >= 1 the loop is left before epoch `epochs` only at
\* an evaluation by which at least `patience` evaluations have been made
\* since the last improving one (since the start if none improved).
C7_NoPrematureStop ==
    (AfterLoop /\ config.val_interval >= 1 /\ epoch_i < config.epochs)
    => /\ Len(wandb_log) >= 1
       /\ epoch_i = wandb_log[Len(wandb_log)].step
       /\ TrailingFails(wandb_log, Len(wandb_log)) >= config.patience

\* C8: when main reaches the checkpoint save and what follows it, best_params
\* and best_val_metrics are not None.
C8_BestRecordedAtSave ==
    pc \in {"save", "restore", "summary"}
    => best_params # None /\ best_val_metrics # None

\* C9: after every evaluation best_val_loss is the minimum val_mse of the
\* evaluations so far, and best_val_epoch, best_val_metrics and best_params
\* are those of the first epoch that attained it.
C9_BestTracksMinimum ==
    (Len(wandb_log) >= 1 /\ NoNaN(wandb_log))
    => \A i \in 1..Len(wandb_log) :
          FirstLowest(wandb_log, i)
          => /\ best_val_loss = wandb_log[i].val_mse
             /\ best_val_epoch = wandb_log[i].step
             /\ best_params = Some(wandb_log[i].step)
             /\ best_val_metrics # None
             /\ best_val_metrics # None => best_val_metrics[1].val_mse = wandb_log[i].val_mse

\* C10: the test evaluation is made only with test nonzero, after the loop,
\* the checkpoint save and the restore, with the best-validation parameters;
\* and a main that runs to its end has made it exactly when test is nonzero.
C10_TestAfterRestore ==
    /\ test_eval # None
       => /\ config.test # 0
          /\ pc = "done"
          /\ best_params # None
          /\ param_file = Some(best_params)
          /\ test_eval = best_params
          /\ model_params = best_params[1]
    /\ pc = "done" => (test_eval # None <=> config.test # 0)

C10_Witness ==
    /\ pc = "done"
    /\ test_eval # None
    /\ test_eval[1] < epoch_i
    /\ Len(wandb_log) >= 2

====
